---- MODULE Spec2Model ----
(***************************************************************************)
(* Model of the trestle runtime environment                                *)
(* (packages/trestle/src/internal/core/runtime-env.ts): task lookup,       *)
(* argument resolution, the override chain walked through runSuper, and    *)
(* the injection of the environment into the process globals around every  *)
(* task action.                                                            *)
(***************************************************************************)
EXTENDS Integers, Sequences, FiniteSets, TLC

(***************************************************************************)
(* Bounds of the model.                                                    *)
(***************************************************************************)
\* how many times the actions of one run may call runSuper
MaxSuperCalls == 3
\* how many times the actions may change the environment's property set
MaxMutations == 1

(***************************************************************************)
(* JavaScript values.  A task argument is undefined, a scalar or an array  *)
(* of scalars; all three share one record shape.                           *)
(***************************************************************************)
Undef == [arr |-> FALSE, items |-> <<>>]
Scalar(s) == [arr |-> FALSE, items |-> <<s>>]
Arr(q) == [arr |-> TRUE, items |-> q]

ScalarValues == {Scalar("ok"), Scalar("bad")}
ArrayValues == {Arr(<<>>), Arr(<<"ok">>), Arr(<<"ok", "bad">>)}
DefaultValue == Scalar("dflt")

\* an object used as a string-keyed mapping
EmptyMap == [k \in {} |-> Undef]

\* obj[key]: a missing key reads as undefined
Get(obj, key) == IF key \in DOMAIN obj THEN obj[key] ELSE Undef

\* a merge that keeps only the second mapping
SpreadSecondOnly(a, b) == b

\* { ...a, ...b }
Spread(a, b) ==
    [k \in (DOMAIN a) \cup (DOMAIN b) |-> IF k \in DOMAIN b THEN b[k] ELSE a[k]]

\* obj[key] = value
Put(obj, key, value) ==
    [k \in (DOMAIN obj) \cup {key} |-> IF k = key THEN value ELSE obj[k]]

(***************************************************************************)
(* Errors: a TrestleError with the name it has in ERRORS and the parameter *)
(* or task it is about.  TRESTLE301 is what a type's validate throws.      *)
(***************************************************************************)
NoError == [code |-> "none", param |-> "none"]
TrestleError(code, what) == [code |-> code, param |-> what]

(***************************************************************************)
(* Parameter definitions.  type is "undefined" (no type, or a type without *)
(* a validate method) or "checked" (a type whose validate accepts the      *)
(* scalar "ok" and throws on anything else).                               *)
(***************************************************************************)
\* the names a task's named and positional parameters take, in order, and a
\* key that no task declares
NamedPool == <<"n1">>
PositionalPool == <<"p1">>
ExtraKey == "x"

ParamTypes == {"undefined", "checked"}

ParamDefinition(name, isOptional, defaultValue, type, isVariadic) ==
    [name |-> name, isOptional |-> isOptional, defaultValue |-> defaultValue,
     type |-> type, isVariadic |-> isVariadic]

\* type.validate(paramName, value): TRUE when it returns, FALSE when it throws
Validate(value) == value = Scalar("ok")

\* a loop that stops after the first element
ValidateFirst(paramName, container, calls) ==
    IF container = <<>>
    THEN [error |-> NoError, calls |-> calls]
    ELSE LET value == Head(container)
             made == Append(calls, <<paramName, value>>)
         IN IF Validate(value)
            THEN [error |-> NoError, calls |-> made]
            ELSE [error |-> TrestleError("TRESTLE301", paramName),
                  calls |-> made]

\* the for loop of _checkTypeValidation: the validator calls made, in order,
\* and the error thrown (NoError when the loop ends)
RECURSIVE ValidateAll(_, _, _)
ValidateAll(paramName, container, calls) ==
    IF container = <<>>
    THEN [error |-> NoError, calls |-> calls]
    ELSE LET value == Head(container)
             made == Append(calls, <<paramName, value>>)
         IN IF Validate(value)
            THEN ValidateAll(paramName, Tail(container), made)
            ELSE [error |-> TrestleError("TRESTLE301", paramName),
                  calls |-> made]

_checkTypeValidation(paramDefinition, argumentValue) ==
    IF paramDefinition.type = "undefined"
    THEN [error |-> NoError, calls |-> <<>>]
    ELSE LET argumentValueContainer ==
                 IF paramDefinition.isVariadic
                 THEN [i \in DOMAIN argumentValue.items |->
                          Scalar(argumentValue.items[i])]
                 ELSE <<argumentValue>>
         IN ValidateAll(paramDefinition.name, argumentValueContainer, <<>>)

\* a resolution that lets a declared default stand in for a mandatory argument
resolveArgumentDefaulting(paramDefinition, argumentValue) ==
    IF argumentValue = Undef
    THEN IF paramDefinition.isOptional \/ paramDefinition.defaultValue # Undef
         THEN [error |-> NoError, value |-> paramDefinition.defaultValue,
               calls |-> <<>>]
         ELSE [error |-> TrestleError("MISSING_TASK_ARGUMENT", paramDefinition.name),
               value |-> Undef, calls |-> <<>>]
    ELSE LET checked == _checkTypeValidation(paramDefinition, argumentValue)
         IN [error |-> checked.error, value |-> argumentValue,
             calls |-> checked.calls]

\* a resolution that validates the default like a provided value
resolveArgumentCheckingDefault(paramDefinition, argumentValue) ==
    LET value == IF argumentValue = Undef /\ paramDefinition.isOptional
                 THEN paramDefinition.defaultValue
                 ELSE argumentValue
    IN IF value = Undef
       THEN IF paramDefinition.isOptional
            THEN [error |-> NoError, value |-> Undef, calls |-> <<>>]
            ELSE [error |-> TrestleError("MISSING_TASK_ARGUMENT", paramDefinition.name),
                  value |-> Undef, calls |-> <<>>]
       ELSE LET checked == _checkTypeValidation(paramDefinition, value)
            IN [error |-> checked.error, value |-> value, calls |-> checked.calls]

\* _resolveArgument: the value returned, or the error thrown
_resolveArgument(paramDefinition, argumentValue) ==
    IF argumentValue = Undef
    THEN IF paramDefinition.isOptional
         THEN [error |-> NoError, value |-> paramDefinition.defaultValue,
               calls |-> <<>>]
         ELSE [error |-> TrestleError("MISSING_TASK_ARGUMENT", paramDefinition.name),
               value |-> Undef, calls |-> <<>>]
    ELSE LET checked == _checkTypeValidation(paramDefinition, argumentValue)
         IN [error |-> checked.error, value |-> argumentValue,
             calls |-> checked.calls]

\* an assignment made whatever the resolved value is
AssignAlways(values, paramName, resolvedArgumentValue) ==
    Put(values, paramName, resolvedArgumentValue)

\* lines 221-223: values[paramName] is assigned unless the value is undefined
AssignResolved(values, paramName, resolvedArgumentValue) ==
    IF resolvedArgumentValue # Undef
    THEN Put(values, paramName, resolvedArgumentValue)
    ELSE values

\* the reduce of _resolveValidTaskArguments over allTaskParamDefinitions
RECURSIVE Reduce(_, _, _)
Reduce(paramDefinitions, taskArguments, acc) ==
    IF paramDefinitions = <<>>
    THEN acc
    ELSE LET paramDefinition == Head(paramDefinitions)
             paramName == paramDefinition.name
             resolved == _resolveArgument(paramDefinition,
                                          Get(taskArguments, paramName))
             next ==
                 [errors |-> IF resolved.error # NoError
                             THEN Append(acc.errors, resolved.error)
                             ELSE acc.errors,
                  values |-> IF resolved.error = NoError
                             THEN AssignResolved(acc.values, paramName,
                                                 resolved.value)
                             ELSE acc.values,
                  calls |-> acc.calls \o resolved.calls]
         IN Reduce(Tail(paramDefinitions), taskArguments, next)

\* a resolution that throws the last error it collected
resolveThrowingLast(taskDefinition, taskArguments) ==
    LET allTaskParamDefinitions ==
            taskDefinition.paramDefinitions \o taskDefinition.positionalParamDefinitions
        resolvedArguments ==
            Reduce(allTaskParamDefinitions, taskArguments,
                   [errors |-> <<>>, values |-> EmptyMap, calls |-> <<>>])
    IN IF Len(resolvedArguments.errors) > 0
       THEN [error |-> resolvedArguments.errors[Len(resolvedArguments.errors)],
             values |-> EmptyMap,
             errors |-> resolvedArguments.errors, calls |-> resolvedArguments.calls]
       ELSE [error |-> NoError,
             values |-> Spread(taskArguments, resolvedArguments.values),
             errors |-> <<>>, calls |-> resolvedArguments.calls]

\* _resolveValidTaskArguments: the mapping returned or the error thrown, with
\* every error collected and every validator call made on the way
_resolveValidTaskArguments(taskDefinition, taskArguments) ==
    LET allTaskParamDefinitions ==
            taskDefinition.paramDefinitions \o taskDefinition.positionalParamDefinitions
        resolvedArguments ==
            Reduce(allTaskParamDefinitions, taskArguments,
                   [errors |-> <<>>, values |-> EmptyMap, calls |-> <<>>])
    IN IF Len(resolvedArguments.errors) > 0
       THEN [error |-> resolvedArguments.errors[1], values |-> EmptyMap,
             errors |-> resolvedArguments.errors, calls |-> resolvedArguments.calls]
       ELSE [error |-> NoError,
             values |-> Spread(taskArguments, resolvedArguments.values),
             errors |-> <<>>, calls |-> resolvedArguments.calls]

(***************************************************************************)
(* The process globals and the environment object.  The environment's own  *)
(* enumerable properties are represented by config and network; an action  *)
(* may add foo or injectToGlobal, delete a property or assign one.         *)
(***************************************************************************)
_BLACKLISTED_PROPERTIES == {"injectToGlobal", "_runTaskDefinition"}

EnvKeys == {"config", "network"}
AddableKeys == {"foo", "injectToGlobal"}
GlobalKeys == EnvKeys \cup AddableKeys

InitialEnv == [k \in EnvKeys |-> "env." \o k]

\* globalAsAny[key]
GlobalGet(obj, key) == IF key \in DOMAIN obj THEN obj[key] ELSE "undefined"

\* the keys Object.entries(this) yields that the blacklist lets through
InjectedKeys(environment, blacklist) == (DOMAIN environment) \ blacklist

\* injectToGlobal, lines 113-122: the captured previous values and the
\* globals after the loop
injectToGlobal(environment, globals, blacklist) ==
    LET keys == InjectedKeys(environment, blacklist)
    IN [previousValues |-> [k \in keys |-> globals[k]],
        globals |-> [k \in DOMAIN globals |->
                        IF k \in keys THEN environment[k] ELSE globals[k]]]

\* the callable injectToGlobal returns, lines 124-132, run against the
\* environment as it is when the callable is invoked
uninjectFromGlobal(environment, globals, previousValues, blacklist) ==
    LET keys == InjectedKeys(environment, blacklist)
    IN [k \in DOMAIN globals |->
           IF k \in keys THEN GlobalGet(previousValues, k) ELSE globals[k]]

(***************************************************************************)
(* Task definitions.  parent = 0 is a plain TaskDefinition; parent = d is  *)
(* an OverriddenTaskDefinition whose parentTaskDefinition is definition d. *)
(* action tells what the task's action does besides returning or throwing: *)
(* "any" actions also call runSuper and change the environment object.     *)
(***************************************************************************)
TaskDefinition(name, parent, named, positional, action) ==
    [name |-> name, parent |-> parent, paramDefinitions |-> named,
     positionalParamDefinitions |-> positional, action |-> action]

isOverridden(taskDefinition) == taskDefinition.parent # 0

\* the parameter definitions a named (resp. positional) slot may hold
NamedParams(name) ==
    {ParamDefinition(name, o, d, t, FALSE) :
        o \in BOOLEAN, d \in {Undef, DefaultValue}, t \in ParamTypes}
PositionalParams(name) ==
    {ParamDefinition(name, o, d, t, v) :
        o \in BOOLEAN, d \in {Undef, DefaultValue}, t \in ParamTypes,
        v \in BOOLEAN}

\* the named parameters of a task, in the order of its paramDefinitions
\* mapping, and its positional parameters; the i-th takes the i-th name of
\* its pool, and only the last positional parameter can be variadic
NamedSeqs ==
    UNION {{q \in [1..n -> UNION {NamedParams(NamedPool[i]) : i \in 1..n}] :
               \A i \in 1..n : q[i].name = NamedPool[i]} : n \in 0..Len(NamedPool)}
PositionalSeqs ==
    UNION {{q \in [1..n -> UNION {PositionalParams(PositionalPool[i]) : i \in 1..n}] :
               \A i \in 1..n : /\ q[i].name = PositionalPool[i]
                                /\ q[i].isVariadic => i = n} : n \in 0..Len(PositionalPool)}

\* build: registered once, then overridden twice; clean: never overridden
ChainDefinitions ==
    << TaskDefinition("build", 0,
                      <<>>, <<ParamDefinition("p1", FALSE, Undef, "checked", FALSE)>>,
                      "any"),
       TaskDefinition("build", 1,
                      <<ParamDefinition("n1", TRUE, DefaultValue, "undefined", FALSE)>>,
                      <<>>, "any"),
       TaskDefinition("build", 2, <<>>, <<>>, "any"),
       TaskDefinition("clean", 0, <<>>, <<>>, "any") >>
ChainTasks == [name \in {"build", "clean"} |-> IF name = "build" THEN 3 ELSE 4]

\* check: one task, never overridden, with every parameter model in bounds
ParamDefinitions(named, positional) ==
    << TaskDefinition("check", 0, named, positional, "returns") >>
ParamTasks == [name \in {"check"} |-> 1]

\* check with two named parameters and a positional one, each with a
\* validator and without a default
OrderedDefinitions ==
    {ParamDefinitions(<<ParamDefinition("n1", o1, Undef, "checked", FALSE),
                        ParamDefinition("n2", o2, Undef, "checked", FALSE)>>,
                      <<ParamDefinition("p1", o3, Undef, "checked", FALSE)>>) :
        o1 \in BOOLEAN, o2 \in BOOLEAN, o3 \in BOOLEAN}

Registries ==
    {[definitions |-> ChainDefinitions, tasks |-> ChainTasks]} \cup
    {[definitions |-> ParamDefinitions(named, positional), tasks |-> ParamTasks] :
        named \in NamedSeqs, positional \in PositionalSeqs} \cup
    {[definitions |-> ordered, tasks |-> ParamTasks] : ordered \in OrderedDefinitions}

TaskNames == {"build", "clean", "check", "deploy"}

\* the raw argument mappings run is called with: a value for a declared
\* parameter is undefined, a scalar or (variadic) an array; the extra key x
\* is no parameter of any task
DeclaredParams(taskDefinition) ==
    taskDefinition.paramDefinitions \o taskDefinition.positionalParamDefinitions
ParamNames(taskDefinition) ==
    {DeclaredParams(taskDefinition)[i].name : i \in DOMAIN DeclaredParams(taskDefinition)}
ParamNamed(taskDefinition, name) ==
    CHOOSE pd \in {DeclaredParams(taskDefinition)[i] :
                       i \in DOMAIN DeclaredParams(taskDefinition)} : pd.name = name
RawValues(taskDefinition, key) ==
    IF key \notin ParamNames(taskDefinition)
    THEN {Scalar("ok")}
    ELSE IF ParamNamed(taskDefinition, key).isVariadic
         THEN {Undef} \cup ArrayValues
         ELSE {Undef} \cup ScalarValues
RECURSIVE RawMappings(_, _)
RawMappings(taskDefinition, keys) ==
    IF keys = {}
    THEN {EmptyMap}
    ELSE LET key == CHOOSE k \in keys : TRUE
             rest == RawMappings(taskDefinition, keys \ {key})
         IN rest \cup {Put(m, key, v) : m \in rest, v \in RawValues(taskDefinition, key)}
RawArguments(taskDefinition) ==
    RawMappings(taskDefinition, ParamNames(taskDefinition) \cup {ExtraKey})

\* the mappings an action passes to runSuper when it passes one
SuperArguments == {[k \in {ExtraKey} |-> Scalar("bad")]}

(***************************************************************************)
(* State.                                                                  *)
(***************************************************************************)
VARIABLES
    tasks,           \* this.tasks: task name -> index into definitions
    definitions,     \* the task definitions the registry holds
    env,             \* the own enumerable properties of the Environment
    global,          \* the process globals the injection can touch
    globalRunSuper,  \* global.runSuper: 0 undefined, -1 a value set before
                     \* any run, n > 0 the runSuper made by invocation n
    stack,           \* the invocations of _runTaskDefinition in progress
    nextFid,         \* number of the next invocation of the current run
    superCalls,      \* calls of runSuper made in the current run
    mutations,       \* changes made to the environment's properties so far
    call,            \* the last call of run: name and raw arguments
    result,          \* its outcome
    entered,         \* the definitions whose action it has invoked, in order
    validated,       \* the validator calls its argument resolution made
    snapshot,        \* the globals when it started
    injected,        \* the global names its injections have written
    lastSuper,       \* the last call of a runSuper
    lastRestore,     \* what the last restore callable did
    construction,    \* new Environment(...): its arguments, the instance
                     \* being built and the extenders invoked so far
    resolution,      \* resolveConfig(...): its arguments, the resolved
                     \* object and the config extenders invoked so far
    overlap          \* a run started while another run's action is
                     \* suspended: where its invocations begin

vars == <<tasks, definitions, env, global, globalRunSuper, stack, nextFid,
          superCalls, mutations, call, result, entered, validated, snapshot, injected,
          lastSuper, lastRestore, construction, resolution, overlap>>

registry == <<tasks, definitions>>

\* the state of the constructor, of resolveConfig and of a second run
others == <<construction, resolution, overlap>>

\* the environment is constructed, the config resolved, no second run started
NoConstruction == [phase |-> "constructed"]
NoResolution == [phase |-> "resolved"]
NoOverlap == [base |-> 0, status |-> "none", outer |-> 0, started |-> FALSE,
              keys |-> {}, ambient |-> [global |-> <<>>, runSuper |-> 0]]

ActionError == TrestleError("ActionError", "none")
NoSuper == [def |-> 0, isDefined |-> FALSE, outcome |-> "none", invoked |-> 0,
            taskArguments |-> EmptyMap, received |-> EmptyMap,
            passed |-> "nothing", given |-> EmptyMap]
NoRestore == [injected |-> {}, wrote |-> {}, changed |-> {}, stale |-> {}]

Top == stack[Len(stack)]
Running == stack # <<>>

\* before the first run either no global of these names exists, or all do
\* (a parameter registry starts with none)
GlobalInits ==
    {[global |-> [k \in GlobalKeys |-> "undefined"], runSuper |-> 0],
     [global |-> [k \in GlobalKeys |-> "prev"], runSuper |-> -1]}

Init ==
    /\ \E r \in Registries :
          /\ tasks = r.tasks
          /\ definitions = r.definitions
          /\ \E g \in GlobalInits :
                /\ r.tasks = ParamTasks => g.runSuper = 0
                /\ global = g.global
                /\ globalRunSuper = g.runSuper
    /\ env = InitialEnv
    /\ stack = <<>>
    /\ nextFid = 1
    /\ superCalls = 0
    /\ mutations = 0
    /\ call = [name |-> "none", taskArguments |-> EmptyMap]
    /\ result = [status |-> "none", error |-> NoError]
    /\ entered = <<>>
    /\ validated = <<>>
    /\ snapshot = [global |-> global, runSuper |-> globalRunSuper]
    /\ injected = {}
    /\ lastSuper = NoSuper
    /\ lastRestore = NoRestore
    /\ construction = NoConstruction
    /\ resolution = NoResolution
    /\ overlap = NoOverlap

(***************************************************************************)
(* _runTaskDefinition, lines 139-173: build runSuper, publish it and the   *)
(* environment, and invoke the action.  The invocation stays on the stack  *)
(* until its action settles.                                               *)
(***************************************************************************)
\* a runSuper that re-enters the definition it belongs to
SameTaskDefinition(def) == def

\* the definition runSuper re-enters, line 148
parentTaskDefinition(def) == definitions[def].parent

\* a runSuperFunction whose marker is set in both branches
runSuperAlwaysDefined(def) ==
    IF isOverridden(definitions[def])
    THEN [isDefined |-> TRUE, parent |-> parentTaskDefinition(def)]
    ELSE [isDefined |-> TRUE, parent |-> 0]

\* runSuperFunction, lines 141-162: its isDefined marker and the definition a
\* call of it re-enters (0: the call throws RunSuperNotAvailable)
runSuperFunction(def) ==
    IF isOverridden(definitions[def])
    THEN [isDefined |-> TRUE, parent |-> parentTaskDefinition(def)]
    ELSE [isDefined |-> FALSE, parent |-> 0]

Invocation(def, taskArguments, fid, previousRunSuper, previousValues) ==
    [def |-> def, taskArguments |-> taskArguments, fid |-> fid,
     runSuper |-> runSuperFunction(def),
     previousRunSuper |-> previousRunSuper, previousValues |-> previousValues,
     caught |-> NoError]

_runTaskDefinition(callers, def, taskArguments, fid) ==
    LET inj == injectToGlobal(env, global, _BLACKLISTED_PROPERTIES)
    IN /\ stack' = Append(callers, Invocation(def, taskArguments, fid,
                                              globalRunSuper, inj.previousValues))
       /\ globalRunSuper' = fid
       /\ global' = inj.globals
       /\ nextFid' = fid + 1
       /\ entered' = Append(IF fid = 1 THEN <<>> ELSE entered, def)
       /\ injected' = (IF fid = 1 THEN {} ELSE injected) \cup DOMAIN inj.previousValues

\* a finally block that removes the global runSuper
FinallyClearsRunSuper(invocation) ==
    [global |-> uninjectFromGlobal(env, global, invocation.previousValues,
                                   _BLACKLISTED_PROPERTIES),
     runSuper |-> 0]

\* a finally block that leaves the global runSuper as it is
FinallyKeepsRunSuper(invocation) ==
    [global |-> uninjectFromGlobal(env, global, invocation.previousValues,
                                   _BLACKLISTED_PROPERTIES),
     runSuper |-> globalRunSuper]

\* the finally block, lines 174-177: the globals it leaves
Finally(invocation) ==
    [global |-> uninjectFromGlobal(env, global, invocation.previousValues,
                                   _BLACKLISTED_PROPERTIES),
     runSuper |-> invocation.previousRunSuper]

(***************************************************************************)
(* run(name, taskArguments), called while no task is running.              *)
(***************************************************************************)
\* a lookup that falls back to the first definition
LookupOrFirst(name) == IF name \in DOMAIN tasks THEN tasks[name] ELSE 1

\* this.tasks[name], line 84; 0 stands for undefined
Lookup(name) == IF name \in DOMAIN tasks THEN tasks[name] ELSE 0

RunArguments(name) ==
    IF name \in DOMAIN tasks
    THEN RawArguments(definitions[tasks[name]])
    ELSE {EmptyMap, [k \in {ExtraKey} |-> Scalar("ok")]}

Run(name, taskArguments) ==
    /\ ~Running
    /\ call' = [name |-> name, taskArguments |-> taskArguments]
    /\ snapshot' = [global |-> global, runSuper |-> globalRunSuper]
    /\ lastSuper' = NoSuper
    /\ lastRestore' = NoRestore
    /\ superCalls' = 0
    /\ UNCHANGED <<registry, env, mutations, others>>
    /\ IF Lookup(name) = 0
       THEN /\ result' = [status |-> "error",
                          error |-> TrestleError("UNRECOGNIZED_TASK", name)]
            /\ validated' = <<>>
            /\ entered' = <<>>
            /\ injected' = {}
            /\ nextFid' = 1
            /\ UNCHANGED <<global, globalRunSuper, stack>>
       ELSE LET taskDefinition == definitions[Lookup(name)]
                resolved == _resolveValidTaskArguments(taskDefinition, taskArguments)
            IN /\ validated' = resolved.calls
               /\ IF resolved.error # NoError
                  THEN /\ result' = [status |-> "error", error |-> resolved.error]
                       /\ entered' = <<>>
                       /\ injected' = {}
                       /\ nextFid' = 1
                       /\ UNCHANGED <<global, globalRunSuper, stack>>
                  ELSE /\ result' = [status |-> "running", error |-> NoError]
                       /\ _runTaskDefinition(<<>>, Lookup(name), resolved.values, 1)

(***************************************************************************)
(* What the action of the innermost invocation does.                       *)
(***************************************************************************)
history == <<call, validated, snapshot>>

\* a runSuper that resolves its arguments against the parent's parameters
superResolvedArguments(parent, useDefault, given, taskArguments) ==
    LET chosen == IF useDefault THEN taskArguments ELSE given
        resolved == _resolveValidTaskArguments(definitions[parent], chosen)
    IN IF resolved.error = NoError THEN resolved.values ELSE chosen

\* the arguments runSuper hands to _runTaskDefinition for the parent, lines
\* 143-150: the mapping it is given, by default the caller's own
superArguments(parent, useDefault, given, taskArguments) ==
    IF useDefault THEN taskArguments ELSE given

\* runSuper() or runSuper(given), awaited by the action; lines 142-161
CallRunSuper(useDefault, given) ==
    /\ Running
    /\ definitions[Top.def].action = "any"
    /\ superCalls < MaxSuperCalls
    /\ superCalls' = superCalls + 1
    /\ LET _taskArguments == IF Top.runSuper.parent # 0
                             THEN superArguments(Top.runSuper.parent, useDefault,
                                                 given, Top.taskArguments)
                             ELSE EmptyMap
           passed == IF useDefault THEN "nothing" ELSE "mapping"
           mapping == IF useDefault THEN EmptyMap ELSE given
       IN IF Top.runSuper.parent # 0
          THEN /\ _runTaskDefinition(stack, Top.runSuper.parent,
                                     _taskArguments, nextFid)
               /\ lastSuper' = [def |-> Top.def,
                                isDefined |-> Top.runSuper.isDefined,
                                outcome |-> "entered",
                                invoked |-> Len(entered') - Len(entered),
                                taskArguments |-> Top.taskArguments,
                                received |-> _taskArguments,
                                passed |-> passed, given |-> mapping]
               /\ UNCHANGED <<registry, env, mutations, history, result, lastRestore,
                              others>>
          ELSE /\ stack' = [stack EXCEPT ![Len(stack)].caught =
                               TrestleError("RUNSUPER_NOT_AVAILABLE",
                                            definitions[Top.def].name)]
               /\ UNCHANGED <<registry, env, global, globalRunSuper, nextFid,
                              mutations, history, result, entered, injected,
                              lastRestore, others>>
               /\ lastSuper' = [def |-> Top.def,
                                isDefined |-> Top.runSuper.isDefined,
                                outcome |-> "RUNSUPER_NOT_AVAILABLE",
                                invoked |-> Len(entered') - Len(entered),
                                taskArguments |-> Top.taskArguments,
                                received |-> EmptyMap,
                                passed |-> "nothing", given |-> EmptyMap]

\* env[key] = value for a key the environment does not have
AddProperty(key) ==
    /\ Running
    /\ definitions[Top.def].action = "any"
    /\ mutations < MaxMutations
    /\ key \notin DOMAIN env
    /\ env' = [k \in (DOMAIN env) \cup {key} |-> IF k = key THEN "added" ELSE env[k]]
    /\ mutations' = mutations + 1
    /\ UNCHANGED <<registry, global, globalRunSuper, stack, nextFid, superCalls, history,
                   result, entered, injected, lastSuper, lastRestore, others>>

\* delete env[key]
DeleteProperty(key) ==
    /\ Running
    /\ definitions[Top.def].action = "any"
    /\ mutations < MaxMutations
    /\ key \in DOMAIN env
    /\ env' = [k \in (DOMAIN env) \ {key} |-> env[k]]
    /\ mutations' = mutations + 1
    /\ UNCHANGED <<registry, global, globalRunSuper, stack, nextFid, superCalls, history,
                   result, entered, injected, lastSuper, lastRestore, others>>

\* env[key] = value for a key the environment has
AssignProperty(key) ==
    /\ Running
    /\ definitions[Top.def].action = "any"
    /\ mutations < MaxMutations
    /\ key \in DOMAIN env
    /\ env[key] # "assigned"
    /\ env' = [env EXCEPT ![key] = "assigned"]
    /\ mutations' = mutations + 1
    /\ UNCHANGED <<registry, global, globalRunSuper, stack, nextFid, superCalls, history,
                   result, entered, injected, lastSuper, lastRestore, others>>

\* the action settles (error = NoError: it returns); the finally block runs
\* and the caller, run or an awaiting runSuper, gets the outcome
Settle(error) ==
    LET after == Finally(Top)
        below == SubSeq(stack, 1, Len(stack) - 1)
    IN /\ global' = after.global
       /\ globalRunSuper' = after.runSuper
       /\ lastRestore' =
              [injected |-> DOMAIN Top.previousValues,
               wrote |-> InjectedKeys(env, _BLACKLISTED_PROPERTIES),
               changed |-> {k \in GlobalKeys : after.global[k] # global[k]},
               stale |-> {k \in DOMAIN Top.previousValues :
                             after.global[k] # Top.previousValues[k]}]
       /\ IF below = <<>>
          THEN /\ stack' = <<>>
               /\ result' = [status |-> IF error = NoError THEN "ok" ELSE "error",
                             error |-> error]
          ELSE /\ stack' = [below EXCEPT ![Len(below)].caught = error]
               /\ UNCHANGED result
       /\ UNCHANGED <<registry, env, nextFid, superCalls, mutations, history,
                      entered, injected, lastSuper, others>>

Return ==
    /\ Running
    /\ Settle(NoError)

Throw(error) ==
    /\ Running
    /\ error \in {ActionError, Top.caught} \ {NoError}
    /\ Settle(error)

Next ==
    \/ /\ ~Running
       /\ \E name \in TaskNames : \E taskArguments \in RunArguments(name) :
             Run(name, taskArguments)
    \/ \E useDefault \in BOOLEAN : \E given \in SuperArguments :
          CallRunSuper(useDefault, given)
    \/ \E key \in GlobalKeys : AddProperty(key)
    \/ \E key \in GlobalKeys : DeleteProperty(key)
    \/ \E key \in GlobalKeys : AssignProperty(key)
    \/ Return
    \/ \E error \in {ActionError, TrestleError("RUNSUPER_NOT_AVAILABLE", "build"),
                      TrestleError("RUNSUPER_NOT_AVAILABLE", "clean")} : Throw(error)

Spec == Init /\ [][Next]_vars

(***************************************************************************)
(* Properties.                                                             *)
(***************************************************************************)
Settled == result.status \in {"ok", "error"}
ActionInvoked == entered # <<>>
GlobalsAsBefore ==
    /\ global = snapshot.global
    /\ globalRunSuper = snapshot.runSuper

\* the definitions of build, newest override first
BuildChain == <<3, 2, 1>>
RunsBuild == definitions = ChainDefinitions /\ call.name = "build"

\* C1: running a task overridden twice enters the outer action first, the
\* middle action only from a runSuper of the outer one and the original only
\* from a runSuper of the middle one: the invocations in progress are always
\* a prefix of outer, middle, original, and every entry after the first was
\* made by a call of runSuper.
C1_ReverseRegistrationOrder ==
    RunsBuild =>
        /\ Len(stack) <= Len(BuildChain)
        /\ \A i \in DOMAIN stack : stack[i].def = BuildChain[i]
        /\ ActionInvoked => entered[1] = BuildChain[1]
        /\ \A i \in DOMAIN entered :
              /\ i > 1 => entered[i] # BuildChain[1]
              /\ entered[i] = BuildChain[3] =>
                    \E j \in 1..(i - 1) : entered[j] = BuildChain[2]
        /\ Len(entered) <= 1 + superCalls

C1_Witness ==
    /\ RunsBuild
    /\ entered = BuildChain
    /\ Len(stack) = 3

\* C2: once a run whose action was invoked has settled, by a return or by a
\* throw, every global name its injections wrote and runSuper hold the value
\* they had before the run started.
C2_GlobalsRestored ==
    (Settled /\ ActionInvoked) =>
        /\ \A k \in injected : global[k] = snapshot.global[k]
        /\ globalRunSuper = snapshot.runSuper

\* C3: the runSuper handed to the action of a definition that is not an
\* OverriddenTaskDefinition has isDefined = FALSE, and every call of it fails
\* with RunSuperNotAvailable and invokes no action; the runSuper of an
\* OverriddenTaskDefinition has isDefined = TRUE.
C3_RunSuperAvailability ==
    /\ \A i \in DOMAIN stack :
          stack[i].runSuper.isDefined = (definitions[stack[i].def].parent # 0)
    /\ (lastSuper.def # 0 /\ definitions[lastSuper.def].parent = 0) =>
          /\ ~lastSuper.isDefined
          /\ lastSuper.outcome = "RUNSUPER_NOT_AVAILABLE"
          /\ lastSuper.invoked = 0
    /\ (lastSuper.def # 0 /\ definitions[lastSuper.def].parent # 0) =>
          lastSuper.isDefined

C3_Witness ==
    /\ Running
    /\ lastSuper.def = Top.def
    /\ definitions[Top.def].parent = 0
    /\ lastSuper.outcome = "RUNSUPER_NOT_AVAILABLE"
    /\ Top.caught = TrestleError("RUNSUPER_NOT_AVAILABLE", definitions[Top.def].name)

\* C4: run with a name that is no key of the task mapping fails with
\* UnrecognizedTask naming it, invokes no action and injects nothing: the
\* globals and runSuper are those of before the call.
C4_UnrecognizedTask ==
    (call.name # "none" /\ call.name \notin DOMAIN tasks) =>
        /\ result = [status |-> "error",
                     error |-> TrestleError("UNRECOGNIZED_TASK", call.name)]
        /\ ~ActionInvoked
        /\ ~Running
        /\ injected = {}
        /\ GlobalsAsBefore

C4_Witness ==
    /\ call.name = "deploy"
    /\ result.status = "error"
    /\ \E k \in GlobalKeys : global[k] # "undefined"

(***************************************************************************)
(* Argument resolution, seen from the caller of run.                       *)
(***************************************************************************)
Recognized == call.name \in DOMAIN tasks
\* the parameters the task run was called for declares, named ones first
Declared == DeclaredParams(definitions[tasks[call.name]])
Raw(paramDefinition) == Get(call.taskArguments, paramDefinition.name)
Provided(paramDefinition) == Raw(paramDefinition) # Undef
\* the mapping the action of the task was invoked with
Received == stack[1].taskArguments

\* the validator of the parameter throws on the value, or on one of its
\* elements when the parameter is variadic
Rejects(paramDefinition, value) ==
    /\ paramDefinition.type = "checked"
    /\ IF paramDefinition.isVariadic
       THEN \E i \in DOMAIN value.items : value.items[i] # "ok"
       ELSE value # Scalar("ok")
Fails(paramDefinition) ==
    \/ ~Provided(paramDefinition) /\ ~paramDefinition.isOptional
    \/ Provided(paramDefinition) /\ Rejects(paramDefinition, Raw(paramDefinition))
NoneFailsBefore(i) == \A j \in 1..(i - 1) : ~Fails(Declared[j])

RunFailedBeforeAction ==
    /\ result.status = "error"
    /\ ~ActionInvoked
    /\ ~Running
    /\ injected = {}
    /\ GlobalsAsBefore

\* C5 as claimed: run with no value for a mandatory parameter fails with
\* MissingArgument naming that parameter, without invoking the action or
\* writing a global.
C5_MissingArgumentNamesIt ==
    Recognized =>
        \A i \in DOMAIN Declared :
            (~Declared[i].isOptional /\ ~Provided(Declared[i])) =>
                /\ RunFailedBeforeAction
                /\ result.error = TrestleError("MISSING_TASK_ARGUMENT", Declared[i].name)

\* C5 as amended: run with no value for a mandatory parameter (whether or not
\* it carries a default) fails without invoking the action or writing a
\* global; the error is MissingArgument naming that parameter when no
\* parameter before it in resolution order fails.
C5_MissingArgument ==
    Recognized =>
        \A i \in DOMAIN Declared :
            (~Declared[i].isOptional /\ ~Provided(Declared[i])) =>
                /\ RunFailedBeforeAction
                /\ NoneFailsBefore(i) =>
                      result.error = TrestleError("MISSING_TASK_ARGUMENT", Declared[i].name)

C5_Witness ==
    /\ Recognized
    /\ \E i \in DOMAIN Declared :
          /\ ~Declared[i].isOptional
          /\ Declared[i].defaultValue # Undef
          /\ ~Provided(Declared[i])
          /\ result.error = TrestleError("MISSING_TASK_ARGUMENT", Declared[i].name)

\* C6: an optional parameter with a declared default that is given no value
\* reaches the action bound to exactly its default, and the validator is
\* never called for it.
C6_DefaultFilled ==
    Recognized =>
        \A i \in DOMAIN Declared :
            (/\ Declared[i].isOptional
             /\ Declared[i].defaultValue # Undef
             /\ ~Provided(Declared[i])) =>
                /\ Running =>
                      /\ Declared[i].name \in DOMAIN Received
                      /\ Received[Declared[i].name] = Declared[i].defaultValue
                /\ \A c \in DOMAIN validated : validated[c][1] # Declared[i].name

C6_Witness ==
    /\ Recognized
    /\ Running
    /\ \E i \in DOMAIN Declared :
          /\ Declared[i].isOptional
          /\ Declared[i].type = "checked"
          /\ Declared[i].name \in DOMAIN call.taskArguments
          /\ ~Provided(Declared[i])
          /\ Received[Declared[i].name] = DefaultValue

\* C7 as claimed: a provided value the validator rejects (for a variadic
\* parameter, any element of it) makes run fail with the invalid-type error
\* without invoking the action; a value it accepts reaches the action
\* unchanged.
C7_InvalidTypeIsTheError ==
    Recognized =>
        \A i \in DOMAIN Declared :
            (Declared[i].type = "checked" /\ Provided(Declared[i])) =>
                IF Rejects(Declared[i], Raw(Declared[i]))
                THEN /\ RunFailedBeforeAction
                     /\ result.error =
                            TrestleError("TRESTLE301", Declared[i].name)
                ELSE Running => Received[Declared[i].name] = Raw(Declared[i])

\* C7 as amended: a rejected value makes run fail without invoking the
\* action, with the invalid-type error of that parameter when no parameter
\* before it in resolution order fails; an accepted value reaches the action
\* unchanged.
C7_TypeValidation ==
    Recognized =>
        \A i \in DOMAIN Declared :
            (Declared[i].type = "checked" /\ Provided(Declared[i])) =>
                IF Rejects(Declared[i], Raw(Declared[i]))
                THEN /\ RunFailedBeforeAction
                     /\ NoneFailsBefore(i) =>
                           result.error =
                               TrestleError("TRESTLE301", Declared[i].name)
                ELSE Running =>
                        /\ Declared[i].name \in DOMAIN Received
                        /\ Received[Declared[i].name] = Raw(Declared[i])

C7_Witness ==
    /\ Recognized
    /\ \E i \in DOMAIN Declared :
          /\ Declared[i].isVariadic
          /\ Raw(Declared[i]) = Arr(<<"ok", "bad">>)
          /\ result.error = TrestleError("TRESTLE301", Declared[i].name)
          /\ validated = <<<<Declared[i].name, Scalar("ok")>>,
                           <<Declared[i].name, Scalar("bad")>>>>

\* C8 as claimed: when resolution succeeds every declared parameter is a
\* key of the mapping the action gets, bound to the provided value or to the
\* default, also an optional one with neither.
C8_EveryParameterIsAKey ==
    (Recognized /\ Running) =>
        \A i \in DOMAIN Declared :
            /\ Declared[i].name \in DOMAIN Received
            /\ Received[Declared[i].name] =
                   IF Provided(Declared[i]) THEN Raw(Declared[i])
                   ELSE Declared[i].defaultValue

\* C8 as amended: when resolution succeeds every declared parameter that was
\* provided or declares a default is a key of the mapping the action gets,
\* bound to the provided value or else to the default; an optional parameter
\* with neither is not added: it is a key only if the raw mapping had it,
\* bound to undefined.
C8_ResolvedParameters ==
    (Recognized /\ Running) =>
        \A i \in DOMAIN Declared :
            IF Provided(Declared[i]) \/ Declared[i].defaultValue # Undef
            THEN /\ Declared[i].name \in DOMAIN Received
                 /\ Received[Declared[i].name] =
                        IF Provided(Declared[i]) THEN Raw(Declared[i])
                        ELSE Declared[i].defaultValue
            ELSE /\ Declared[i].name \in DOMAIN Received <=>
                        Declared[i].name \in DOMAIN call.taskArguments
                 /\ Declared[i].name \in DOMAIN Received =>
                        Received[Declared[i].name] = Undef

C8_Witness ==
    /\ Recognized
    /\ Running
    /\ Len(Declared) = 2
    /\ Provided(Declared[1])
    /\ ~Provided(Declared[2])
    /\ Declared[2].defaultValue = Undef
    /\ DOMAIN Received = {Declared[1].name}

\* C9: when resolution succeeds no key of the raw mapping is dropped, and a
\* key that is no declared parameter reaches the action with its value
\* unchanged.
C9_ExtraArgumentsKept ==
    (Recognized /\ Running) =>
        \A k \in DOMAIN call.taskArguments :
            /\ k \in DOMAIN Received
            /\ k \notin ParamNames(definitions[tasks[call.name]]) =>
                  Received[k] = call.taskArguments[k]

C9_Witness ==
    /\ Recognized
    /\ Running
    /\ Len(Declared) = 2
    /\ ExtraKey \in DOMAIN call.taskArguments
    /\ Received[ExtraKey] = Scalar("ok")
    /\ DOMAIN Received = {ExtraKey, Declared[1].name, Declared[2].name}

\* C10: the restore callable writes exactly the global names its injection
\* wrote, each with the value captured then, and changes no global outside
\* that set, also when the action added or removed a property of the
\* environment in between.
C10_RestoreSameKeySet ==
    /\ lastRestore.wrote = lastRestore.injected
    /\ lastRestore.changed \subseteq lastRestore.injected
    /\ lastRestore.stale = {}

(***************************************************************************)
(* Construction of the Environment, lines 45-72.  The constructor looks up *)
(* the selected network, throws or sets the instance's fields, and then    *)
(* calls every extender with the instance.  An extender is code of a       *)
(* plugin: it returns after recording its name on the instance, or throws. *)
(***************************************************************************)
\* how many extenders the constructor (or resolveConfig) is given
MaxExtenders == 2

NetworkNames == {"default", "dev"}
\* config.networks: no network, or the default one
ConfigNetworks == {[n \in names |-> "cfg." \o n] : names \in {{}, {"default"}}}

\* config.networks[runtimeArgs.network], line 54
NetworkGet(networks, name) ==
    IF name \in DOMAIN networks THEN networks[name] ELSE "undefined"

EnvironmentExtender(name, throws) == [name |-> name, throws |-> throws]
ExtenderPool ==
    {EnvironmentExtender("e1", FALSE), EnvironmentExtender("e2", FALSE),
     EnvironmentExtender("boom", TRUE)}
ExtenderLists == UNION {[1..n -> ExtenderPool] : n \in 0..MaxExtenders}

ExtenderError(name) == TrestleError("ExtenderError", name)

\* the fields of the instance before line 66 has run, and after
Unset == [name |-> "unset", config |-> "unset"]
Instance(network, extended) == [network |-> network, extended |-> extended]

Constructions ==
    {[config |-> [networks |-> networks],
      runtimeArgs |-> [network |-> name],
      extenders |-> extenders,
      networkRequired |-> networkRequired,
      phase |-> "new",
      this |-> Instance(Unset, <<>>),
      invoked |-> <<>>,
      error |-> NoError] :
        networks \in ConfigNetworks, name \in NetworkNames,
        extenders \in ExtenderLists, networkRequired \in BOOLEAN}

\* the part of the state the constructor and resolveConfig leave alone
Untouched == <<tasks, definitions, env, global, globalRunSuper, stack, nextFid,
               superCalls, mutations, call, result, entered, validated,
               snapshot, injected, lastSuper, lastRestore>>
NothingRun ==
    /\ tasks = ChainTasks
    /\ definitions = ChainDefinitions
    /\ env = InitialEnv
    /\ global = [k \in GlobalKeys |-> "undefined"]
    /\ globalRunSuper = 0
    /\ stack = <<>>
    /\ nextFid = 1
    /\ superCalls = 0
    /\ mutations = 0
    /\ call = [name |-> "none", taskArguments |-> EmptyMap]
    /\ result = [status |-> "none", error |-> NoError]
    /\ entered = <<>>
    /\ validated = <<>>
    /\ snapshot = [global |-> global, runSuper |-> globalRunSuper]
    /\ injected = {}
    /\ lastSuper = NoSuper
    /\ lastRestore = NoRestore

ConstructInit ==
    /\ NothingRun
    /\ construction \in Constructions
    /\ resolution = NoResolution
    /\ overlap = NoOverlap

\* a check that does not look at networkRequired
networkCheckAlways(ncfg, networkRequired) == ncfg = "undefined"

\* the condition of line 56
networkCheck(ncfg, networkRequired) == ncfg = "undefined" /\ networkRequired

\* lines 52-69: the lookup, the check and the assignment of the fields
Construct ==
    /\ construction.phase = "new"
    /\ LET ncfg == NetworkGet(construction.config.networks,
                              construction.runtimeArgs.network)
       IN IF networkCheck(ncfg, construction.networkRequired)
          THEN construction' =
                   [construction EXCEPT
                       !.phase = "failed",
                       !.error = TrestleError("NETWORK.CONFIG_NOT_FOUND",
                                              construction.runtimeArgs.network)]
          ELSE construction' =
                   [construction EXCEPT
                       !.phase = IF construction.extenders = <<>>
                                 THEN "constructed" ELSE "extending",
                       !.this = Instance([name |-> construction.runtimeArgs.network,
                                          config |-> ncfg], <<>>)]
    /\ UNCHANGED <<Untouched, resolution, overlap>>

\* a forEach that walks the list from its end
forEachReversed(list, k) == Len(list) - k + 1

\* the element forEach hands to its k-th callback, line 71
forEachIndex(list, k) == k

\* line 71, one iteration: extender(this)
Extend ==
    /\ construction.phase = "extending"
    /\ LET k == Len(construction.invoked) + 1
           i == forEachIndex(construction.extenders, k)
           extender == construction.extenders[i]
           invoked == Append(construction.invoked,
                             [extender |-> i, this |-> construction.this])
       IN IF extender.throws
          THEN construction' =
                   [construction EXCEPT !.phase = "failed",
                                        !.invoked = invoked,
                                        !.error = ExtenderError(extender.name)]
          ELSE construction' =
                   [construction EXCEPT
                       !.phase = IF k = Len(construction.extenders)
                                 THEN "constructed" ELSE "extending",
                       !.invoked = invoked,
                       !.this.extended = Append(@, extender.name)]
    /\ UNCHANGED <<Untouched, resolution, overlap>>

ConstructNext ==
    \/ Construct
    \/ Extend

ConstructSpec == ConstructInit /\ [][ConstructNext]_vars

Constructing == construction.phase # "new"
SelectedNetwork == construction.runtimeArgs.network
NoNetworkEntry == SelectedNetwork \notin DOMAIN construction.config.networks
NetworkConfigNotFound == TrestleError("NETWORK.CONFIG_NOT_FOUND", SelectedNetwork)
FailedOnNetwork ==
    /\ construction.phase = "failed"
    /\ construction.error = NetworkConfigNotFound
    /\ construction.invoked = <<>>
    /\ construction.this = Instance(Unset, <<>>)

\* C11 as claimed: when the selected network has no entry in config.networks,
\* construction with networkRequired fails with NetworkConfigNotFound before
\* any extender is invoked; without networkRequired it succeeds, the
\* extenders run and network.config is undefined.
C11_SucceedsWhenNotRequired ==
    (Constructing /\ NoNetworkEntry) =>
        IF construction.networkRequired
        THEN FailedOnNetwork
        ELSE /\ construction.phase # "failed"
             /\ construction.this.network.config = "undefined"
             /\ construction.phase = "constructed" =>
                   Len(construction.invoked) = Len(construction.extenders)

\* C11 as amended: when the selected network has no entry in config.networks,
\* construction with networkRequired fails with NetworkConfigNotFound before
\* any extender is invoked and before any field is set; without
\* networkRequired it never fails with NetworkConfigNotFound: network is set
\* to the selected name with config undefined, the extenders are invoked,
\* and construction fails only if an extender throws, with that extender's
\* error.
C11_NetworkCheck ==
    (Constructing /\ NoNetworkEntry) =>
        IF construction.networkRequired
        THEN FailedOnNetwork
        ELSE /\ construction.error # NetworkConfigNotFound
             /\ construction.this.network =
                    [name |-> SelectedNetwork, config |-> "undefined"]
             /\ construction.phase = "constructed" =>
                   Len(construction.invoked) = Len(construction.extenders)
             /\ construction.phase = "failed" =>
                   /\ construction.invoked # <<>>
                   /\ LET last == construction.extenders[Len(construction.invoked)]
                      IN /\ last.throws
                         /\ construction.error = ExtenderError(last.name)

C11_Witness ==
    /\ NoNetworkEntry
    /\ ~construction.networkRequired
    /\ construction.phase = "constructed"
    /\ Len(construction.invoked) = 2
    /\ construction.this.network.config = "undefined"

\* C12: every extender the constructor has invoked was invoked at its place
\* in the list, once, after the network field was set, with the instance as
\* left by all the extenders before it; no extender is invoked after one that
\* threw; a construction that succeeds has invoked them all, and one that
\* fails after the network check failed at the extender that threw.
C12_ExtendersInOrder ==
    /\ \A k \in DOMAIN construction.invoked :
          /\ construction.invoked[k].extender = k
          /\ construction.invoked[k].this.network =
                 [name |-> SelectedNetwork,
                  config |-> NetworkGet(construction.config.networks, SelectedNetwork)]
          /\ construction.invoked[k].this.extended =
                 [j \in 1..(k - 1) |-> construction.extenders[j].name]
          /\ \A j \in 1..(k - 1) : ~construction.extenders[j].throws
    /\ construction.phase = "constructed" =>
          /\ Len(construction.invoked) = Len(construction.extenders)
          /\ construction.this.extended =
                 [j \in DOMAIN construction.extenders |-> construction.extenders[j].name]
    /\ (construction.phase = "failed" /\ construction.invoked # <<>>) =>
          construction.extenders[Len(construction.invoked)].throws

C12_Witness ==
    /\ construction.phase = "failed"
    /\ Len(construction.extenders) = 2
    /\ Len(construction.invoked) = 1
    /\ construction.invoked[1].this = Instance([name |-> "default",
                                                config |-> "cfg.default"], <<>>)

(***************************************************************************)
(* Configuration values (config/config-resolution.ts).  A value is         *)
(* undefined, null, a scalar, an array of scalars or an object; a scalar   *)
(* is held as the sequence of its tokens, so that a path string "/proj/a"  *)
(* is <<"/", "proj", "a">> and the number 1 is <<"1">>.                     *)
(***************************************************************************)
NoFields == [k \in {} |-> 0]
CUndefined == [kind |-> "undefined", items |-> <<>>, fields |-> NoFields]
CNull == [kind |-> "null", items |-> <<>>, fields |-> NoFields]
Str(tokens) == [kind |-> "scalar", items |-> tokens, fields |-> NoFields]
List(elements) == [kind |-> "array", items |-> elements, fields |-> NoFields]
Obj(fields) == [kind |-> "object", items |-> <<>>, fields |-> fields]

\* object[key] for a config object
Field(object, key) ==
    IF key \in DOMAIN object.fields THEN object.fields[key] ELSE CUndefined

\* deepmerge's default isMergeableObject: arrays and plain objects
isMergeableObject(value) == value.kind \in {"object", "array"}

\* an arrayMerge that concatenates, as deepmerge does by default
arrayConcat(destination, source) == List(destination.items \o source.items)

\* the arrayMerge option of line 19
arrayMerge(destination, source) == source

\* deepmerge(target, source, { arrayMerge }), line 18: values of different
\* array-ness give the source, two arrays go to arrayMerge, anything else is
\* merged key by key into a new object (a target that is no object
\* contributes no key)
RECURSIVE deepmerge(_, _)
deepmerge(target, source) ==
    IF (source.kind = "array") # (target.kind = "array")
    THEN source
    ELSE IF source.kind = "array"
         THEN arrayMerge(target, source)
         ELSE LET kept == IF target.kind = "object" THEN target.fields ELSE NoFields
              IN Obj([k \in (DOMAIN kept) \cup (DOMAIN source.fields) |->
                         IF k \in DOMAIN source.fields
                         THEN IF k \in DOMAIN kept /\ isMergeableObject(source.fields[k])
                              THEN deepmerge(kept[k], source.fields[k])
                              ELSE source.fields[k]
                         ELSE kept[k]])

mergeUserAndDefaultConfigs(defaultConfig, userConfig) ==
    deepmerge(defaultConfig, userConfig)

(***************************************************************************)
(* Paths, as node's path module treats them on a POSIX system.             *)
(***************************************************************************)
\* path.isAbsolute
isAbsolute(path) == path # <<>> /\ path[1] = "/"

Segments(path) == IF isAbsolute(path) THEN Tail(path) ELSE path

\* path.normalize on segments: "." and "" vanish, ".." removes the segment
\* before it, stays at the root of an absolute path and is kept at the
\* front of a relative one
RECURSIVE normalizeSegments(_, _, _)
normalizeSegments(segments, done, absolute) ==
    IF segments = <<>>
    THEN done
    ELSE LET segment == Head(segments)
             rest == Tail(segments)
         IN IF segment \in {".", ""}
            THEN normalizeSegments(rest, done, absolute)
            ELSE IF segment = ".."
                 THEN IF done # <<>> /\ done[Len(done)] # ".."
                      THEN normalizeSegments(rest, SubSeq(done, 1, Len(done) - 1),
                                             absolute)
                      ELSE IF absolute
                           THEN normalizeSegments(rest, done, absolute)
                           ELSE normalizeSegments(rest, Append(done, ".."), absolute)
                 ELSE normalizeSegments(rest, Append(done, segment), absolute)

\* path.join(from, to)
join(from, to) ==
    LET absolute == IF from # <<>> THEN isAbsolute(from) ELSE isAbsolute(to)
        segments == normalizeSegments(Segments(from) \o Segments(to), <<>>, absolute)
    IN IF absolute
       THEN <<"/">> \o segments
       ELSE IF segments = <<>> THEN <<".">> ELSE segments

\* path.dirname
dirname(path) ==
    IF isAbsolute(path)
    THEN IF Len(path) <= 2 THEN <<"/">> ELSE SubSeq(path, 1, Len(path) - 1)
    ELSE IF Len(path) <= 1 THEN <<".">> ELSE SubSeq(path, 1, Len(path) - 1)

\* a resolution that joins absolute paths too
resolvePathAlwaysJoined(from, defaultPath, relativeOrAbsolutePath) ==
    join(from, IF relativeOrAbsolutePath = CUndefined
               THEN defaultPath ELSE relativeOrAbsolutePath.items)

\* resolvePathFrom, lines 58-68; the third argument is a config value and
\* takes the default when it is undefined
resolvePathFrom(from, defaultPath, relativeOrAbsolutePath) ==
    LET given == IF relativeOrAbsolutePath = CUndefined
                 THEN defaultPath ELSE relativeOrAbsolutePath.items
    IN IF isAbsolute(given) THEN given ELSE join(from, given)

\* an object in which the user's entries are spread last
userPathsLast(otherPaths, derived) == Spread(derived, otherPaths)

\* the object literal of lines 94-102: ...otherPaths first
projectPaths(otherPaths, derived) == Spread(otherPaths, derived)

\* resolveProjectPaths, lines 81-103; userPaths is a config value
resolveProjectPaths(userConfigPath, userPaths) ==
    LET paths == IF userPaths = CUndefined THEN Obj(NoFields) ELSE userPaths
        configDir == dirname(userConfigPath)
        root == resolvePathFrom(configDir, <<>>, Field(paths, "root"))
        otherPaths == [name \in DOMAIN paths.fields |->
                          Str(resolvePathFrom(root, paths.fields[name].items,
                                              CUndefined))]
        derived ==
            [name \in {"root", "configFile", "sources", "cache", "artifacts", "tests"} |->
                CASE name = "root" -> Str(root)
                  [] name = "configFile" -> Str(userConfigPath)
                  [] name = "sources" ->
                         Str(resolvePathFrom(root, <<"contracts">>, Field(paths, "sources")))
                  [] name = "cache" ->
                         Str(resolvePathFrom(root, <<"cache">>, Field(paths, "cache")))
                  [] name = "artifacts" ->
                         Str(resolvePathFrom(root, <<"artifacts">>, Field(paths, "artifacts")))
                  [] name = "tests" ->
                         Str(resolvePathFrom(root, <<"test">>, Field(paths, "tests")))]
    IN Obj(projectPaths(otherPaths, derived))

(***************************************************************************)
(* resolveConfig, lines 34-56.  The inputs are drawn from three families:  *)
(* default and user configs to merge, user path objects to resolve, and    *)
(* lists of config extenders.  A config extender is code of a plugin: it   *)
(* returns after recording its name on the resolved object, or throws.     *)
(***************************************************************************)
\* a field an object does not have
Absent == [kind |-> "absent", items |-> <<>>, fields |-> NoFields]
\* the object with the fields of choices that are not Absent
Pick(choices) ==
    Obj([k \in {key \in DOMAIN choices : choices[key] # Absent} |-> choices[k]])

DefaultConfigs ==
    {Pick([a |-> a, list |-> list, opts |-> opts, networks |-> networks,
           paths |-> paths]) :
        a \in {Absent, Str(<<"1">>)},
        list \in {Absent, List(<<"1", "2">>)},
        opts \in {Absent, Str(<<"1">>),
                  Pick([b |-> Str(<<"1">>), list |-> List(<<"1", "2">>)])},
        networks \in {Absent, Pick([default |-> Str(<<"cfg.default">>)])},
        paths \in {Absent, Pick([sources |-> Str(<<"dsrc">>)])}}

UserConfigs ==
    {Pick([a |-> a, list |-> list, opts |-> opts, networks |-> networks,
           paths |-> paths]) :
        a \in {Absent, Str(<<"2">>)},
        list \in {Absent, List(<<"3">>), List(<<>>)},
        opts \in {Absent, List(<<"3">>),
                  Pick([c |-> Str(<<"2">>), list |-> List(<<"3">>)])},
        networks \in {Absent, CNull, Pick([dev |-> Str(<<"cfg.dev">>)])},
        paths \in {Absent, Pick([sources |-> Str(<<"src">>)])}}

UserPaths ==
    {CUndefined} \cup
    {Pick([root |-> root, sources |-> sources, lib |-> lib,
           configFile |-> configFile]) :
        root \in {Absent, Str(<<>>), Str(<<"sub">>), Str(<<"..", "up">>),
                  Str(<<"/", "abs">>), Str(<<"/", "abs", "..", "x">>)},
        sources \in {Absent, Str(<<"src">>), Str(<<"/", "s">>)},
        lib \in {Absent, Str(<<"lib">>), Str(<<"/", "lib">>)},
        configFile \in {Absent, Str(<<"/", "evil.js">>)}}

ProjectConfigFile == Str(<<"/", "proj", "cfg.js">>)
ConfigFiles ==
    {ProjectConfigFile, Str(<<"/", "cfg.js">>), Str(<<"cfg.js">>), CUndefined}

ConfigExtender(name, throws) == [name |-> name, throws |-> throws]
ConfigExtenderPool ==
    {ConfigExtender("c1", FALSE), ConfigExtender("c2", FALSE),
     ConfigExtender("boom", TRUE)}
ConfigExtenderLists == UNION {[1..n -> ConfigExtenderPool] : n \in 0..MaxExtenders}

Resolution(userConfigPath, defaultConfig, userConfig, configExtenders) ==
    [userConfigPath |-> userConfigPath, defaultConfig |-> defaultConfig,
     userConfig |-> userConfig, configExtenders |-> configExtenders,
     phase |-> "new", resolved |-> CUndefined, invoked |-> <<>>,
     error |-> NoError]

Resolutions ==
    {Resolution(userConfigPath, defaultConfig, userConfig, <<>>) :
        userConfigPath \in {ProjectConfigFile, CUndefined},
        defaultConfig \in DefaultConfigs, userConfig \in UserConfigs}
    \cup
    {Resolution(userConfigPath, Obj(NoFields),
                IF userPaths = CUndefined THEN Obj(NoFields)
                ELSE Pick([paths |-> userPaths]), <<>>) :
        userConfigPath \in ConfigFiles, userPaths \in UserPaths}
    \cup
    {Resolution(ProjectConfigFile, Pick([a |-> Str(<<"1">>)]),
                Pick([a |-> Str(<<"2">>)]), configExtenders) :
        configExtenders \in ConfigExtenderLists}

ResolveInit ==
    /\ NothingRun
    /\ construction = NoConstruction
    /\ resolution \in Resolutions
    /\ overlap = NoOverlap

\* config.networks ?? {}
orEmpty(value) == IF value.kind \in {"null", "undefined"} THEN Obj(NoFields) ELSE value

\* lines 40-49: the merge, the derivation of the paths and the resolved object
resolveConfig ==
    /\ resolution.phase = "new"
    /\ LET config == mergeUserAndDefaultConfigs(resolution.defaultConfig,
                                                resolution.userConfig)
           paths == IF resolution.userConfigPath # CUndefined
                    THEN resolveProjectPaths(resolution.userConfigPath.items,
                                             Field(resolution.userConfig, "paths"))
                    ELSE CUndefined
           resolved ==
               Obj(Spread(config.fields,
                          [k \in {"paths", "networks"} |->
                              IF k = "paths" THEN paths
                              ELSE orEmpty(Field(config, "networks"))]))
       IN resolution' =
              [resolution EXCEPT
                  !.phase = IF resolution.configExtenders = <<>>
                            THEN "resolved" ELSE "extending",
                  !.resolved = resolved]
    /\ UNCHANGED <<Untouched, construction, overlap>>

\* a call that hands the resolved object to the extender twice
extenderArgumentsResolvedOnly(resolved, userConfig) ==
    [resolved |-> resolved, userConfig |-> resolved]

\* the arguments of line 52
extenderArguments(resolved, userConfig) ==
    [resolved |-> resolved, userConfig |-> userConfig]

\* lines 51-53, one iteration: extender(resolved, userConfig)
ExtendConfig ==
    /\ resolution.phase = "extending"
    /\ LET k == Len(resolution.invoked) + 1
           extender == resolution.configExtenders[k]
           arguments == extenderArguments(resolution.resolved, resolution.userConfig)
           invoked == Append(resolution.invoked,
                             [extender |-> k, resolved |-> arguments.resolved,
                              userConfig |-> arguments.userConfig])
       IN IF extender.throws
          THEN resolution' =
                   [resolution EXCEPT !.phase = "failed",
                                      !.invoked = invoked,
                                      !.error = ExtenderError(extender.name)]
          ELSE resolution' =
                   [resolution EXCEPT
                       !.phase = IF k = Len(resolution.configExtenders)
                                 THEN "resolved" ELSE "extending",
                       !.invoked = invoked,
                       !.resolved =
                           Obj(Spread(arguments.resolved.fields,
                                      [f \in {"extended"} |->
                                          List(Field(arguments.resolved, "extended").items
                                               \o <<extender.name>>)]))]
    /\ UNCHANGED <<Untouched, construction, overlap>>

ResolveNext ==
    \/ resolveConfig
    \/ ExtendConfig

ResolveSpec == ResolveInit /\ [][ResolveNext]_vars

Merging == resolution.phase # "new"

\* on the given keys, and below them wherever both inputs hold an object, the
\* result has: a field of one input only with that input's value, a scalar
\* of both with the user's value, an array of both equal to the user's array
RECURSIVE MergedOn(_, _, _, _)
MergedOn(defaultConfig, userConfig, merged, keys) ==
    /\ merged.kind = "object"
    /\ \A k \in keys :
          /\ k \in DOMAIN merged.fields
          /\ IF k \notin DOMAIN userConfig.fields
             THEN merged.fields[k] = defaultConfig.fields[k]
             ELSE IF k \notin DOMAIN defaultConfig.fields
                  THEN merged.fields[k] = userConfig.fields[k]
                  ELSE LET default == defaultConfig.fields[k]
                           user == userConfig.fields[k]
                       IN /\ (default.kind = "scalar" /\ user.kind = "scalar") =>
                                merged.fields[k] = user
                          /\ (default.kind = "array" /\ user.kind = "array") =>
                                merged.fields[k] = user
                          /\ (default.kind = "object" /\ user.kind = "object") =>
                                MergedOn(default, user, merged.fields[k],
                                         (DOMAIN default.fields) \cup
                                         (DOMAIN user.fields))

InputKeys ==
    (DOMAIN resolution.defaultConfig.fields) \cup (DOMAIN resolution.userConfig.fields)
\* neither input gives networks a value other than null
NetworksMissing ==
    orEmpty(Field(resolution.userConfig, "networks")) = Obj(NoFields) /\
    (\/ "networks" \in DOMAIN resolution.userConfig.fields
     \/ "networks" \notin DOMAIN resolution.defaultConfig.fields)
ExampleDefault == Pick([a |-> Str(<<"1">>), list |-> List(<<"1", "2">>)])
ExampleUser == Pick([list |-> List(<<"3">>)])

\* C13 as claimed: in the resolved config every field path, paths and
\* networks included, has the value of the only input that holds it, the
\* user's scalar when both hold a scalar, and the user's array exactly when
\* both hold an array.
C13_EveryFieldMerged ==
    Merging =>
        MergedOn(resolution.defaultConfig, resolution.userConfig,
                 resolution.resolved, InputKeys)

\* C13 as amended: the same for every field path outside the top-level
\* field paths, and outside a top-level networks that the merge leaves null
\* or undefined, which resolves to the empty mapping; paths never keeps an
\* input's value: it holds the derived paths, or undefined when no config
\* file path is given.  Default {a:1, list:[1,2]} with user {list:[3]}
\* resolves to a:1, list:[3].
C13_MergeOutsidePaths ==
    Merging =>
        /\ MergedOn(resolution.defaultConfig, resolution.userConfig,
                    resolution.resolved,
                    InputKeys \ ({"paths"} \cup
                                 IF NetworksMissing THEN {"networks"} ELSE {}))
        /\ NetworksMissing => Field(resolution.resolved, "networks") = Obj(NoFields)
        /\ Field(resolution.resolved, "paths") =
               IF resolution.userConfigPath = CUndefined
               THEN CUndefined
               ELSE resolveProjectPaths(resolution.userConfigPath.items,
                                        Field(resolution.userConfig, "paths"))
        /\ (resolution.defaultConfig = ExampleDefault /\
            resolution.userConfig = ExampleUser) =>
              /\ Field(resolution.resolved, "a") = Str(<<"1">>)
              /\ Field(resolution.resolved, "list") = List(<<"3">>)

C13_Witness ==
    /\ resolution.phase = "resolved"
    /\ Field(resolution.defaultConfig, "opts") =
           Pick([b |-> Str(<<"1">>), list |-> List(<<"1", "2">>)])
    /\ Field(resolution.defaultConfig, "list") = List(<<"1", "2">>)
    /\ Field(resolution.userConfig, "list") = List(<<"3">>)
    /\ Field(resolution.resolved, "list") = List(<<"3">>)
    /\ Field(resolution.resolved, "opts") =
           Pick([b |-> Str(<<"1">>), c |-> Str(<<"2">>), list |-> List(<<"3">>)])

\* what resolveConfig was given, and the paths of the object it made
HasConfigFile == resolution.userConfigPath # CUndefined
ConfigFile == resolution.userConfigPath.items
Declared_paths ==
    IF Field(resolution.userConfig, "paths") = CUndefined
    THEN NoFields ELSE Field(resolution.userConfig, "paths").fields
Resolved_paths == Field(resolution.resolved, "paths")
DefaultPaths ==
    [name \in {"sources", "cache", "artifacts", "tests"} |->
        CASE name = "sources" -> <<"contracts">>
          [] name = "cache" -> <<"cache">>
          [] name = "artifacts" -> <<"artifacts">>
          [] name = "tests" -> <<"test">>]
\* the root the claims describe
RootFromConfigDir ==
    IF "root" \in DOMAIN Declared_paths /\ isAbsolute(Declared_paths["root"].items)
    THEN Declared_paths["root"].items
    ELSE join(dirname(ConfigFile),
              IF "root" \in DOMAIN Declared_paths
              THEN Declared_paths["root"].items ELSE <<>>)

\* C14: root is the user's root if absolute, else the config file's
\* directory joined with it (the directory itself when none is declared);
\* sources, cache, artifacts, tests and every other name the user declares
\* is the user's value if absolute, else root joined with the user's value
\* or with the default contracts, cache, artifacts, test.  With /proj/cfg.js
\* and no user paths: root /proj, sources /proj/contracts, cache /proj/cache;
\* with root "sub": root /proj/sub, sources /proj/sub/contracts.
C14_PathsResolved ==
    (Merging /\ HasConfigFile) =>
        /\ Resolved_paths.kind = "object"
        /\ Field(Resolved_paths, "root") = Str(RootFromConfigDir)
        /\ "root" \notin DOMAIN Declared_paths =>
              Field(Resolved_paths, "root") = Str(dirname(ConfigFile))
        /\ \A name \in ((DOMAIN DefaultPaths) \cup (DOMAIN Declared_paths))
                           \ {"root", "configFile"} :
              Field(Resolved_paths, name) =
                  IF name \in DOMAIN Declared_paths
                  THEN IF isAbsolute(Declared_paths[name].items)
                       THEN Declared_paths[name]
                       ELSE Str(join(RootFromConfigDir, Declared_paths[name].items))
                  ELSE Str(join(RootFromConfigDir, DefaultPaths[name]))
        /\ (resolution.userConfigPath = ProjectConfigFile /\ Declared_paths = NoFields) =>
              /\ Field(Resolved_paths, "root") = Str(<<"/", "proj">>)
              /\ Field(Resolved_paths, "sources") = Str(<<"/", "proj", "contracts">>)
              /\ Field(Resolved_paths, "cache") = Str(<<"/", "proj", "cache">>)
        /\ (resolution.userConfigPath = ProjectConfigFile /\
            Declared_paths = Pick([root |-> Str(<<"sub">>)]).fields) =>
              /\ Field(Resolved_paths, "root") = Str(<<"/", "proj", "sub">>)
              /\ Field(Resolved_paths, "sources") =
                     Str(<<"/", "proj", "sub", "contracts">>)

C14_Witness ==
    /\ resolution.phase = "resolved"
    /\ resolution.userConfigPath = ProjectConfigFile
    /\ Declared_paths = Pick([root |-> Str(<<"..", "up">>), sources |-> Str(<<"/", "s">>),
                              lib |-> Str(<<"lib">>)]).fields
    /\ Resolved_paths =
           Pick([root |-> Str(<<"/", "up">>), configFile |-> ProjectConfigFile,
                 sources |-> Str(<<"/", "s">>), lib |-> Str(<<"/", "up", "lib">>),
                 cache |-> Str(<<"/", "up", "cache">>),
                 artifacts |-> Str(<<"/", "up", "artifacts">>),
                 tests |-> Str(<<"/", "up", "test">>)])

\* C15: whatever the user paths declare, a configFile or root entry
\* included, the resolved paths have configFile equal to the config file
\* path passed in and root equal to the value derived from the config
\* directory, not the user's root resolved once more against that root; with
\* no config file path the resolved config's paths is undefined, whatever
\* paths the default or the user config hold.
C15_ConfigFileFixed ==
    Merging =>
        IF HasConfigFile
        THEN /\ Field(Resolved_paths, "configFile") = resolution.userConfigPath
             /\ Field(Resolved_paths, "root") = Str(RootFromConfigDir)
        ELSE /\ "paths" \in DOMAIN resolution.resolved.fields
             /\ Resolved_paths = CUndefined

C15_Witness ==
    /\ resolution.phase = "resolved"
    /\ resolution.userConfigPath = ProjectConfigFile
    /\ Declared_paths = Pick([root |-> Str(<<"sub">>),
                              configFile |-> Str(<<"/", "evil.js">>)]).fields
    /\ Field(Resolved_paths, "configFile") = ProjectConfigFile
    /\ Field(Resolved_paths, "root") = Str(<<"/", "proj", "sub">>)

\* the resolved object with the names of the first n extenders recorded
ExtendedBy(resolved, n) ==
    IF n = 0
    THEN resolved
    ELSE Obj(Spread(resolved.fields,
                    [f \in {"extended"} |->
                        List([j \in 1..n |-> resolution.configExtenders[j].name])]))

\* C16: every config extender resolveConfig has invoked was invoked at its
\* place in the list, once, with the user config as supplied and with the one
\* resolved object: the first gets it merged and with its paths derived and
\* networks present, each later one as the extenders before it left it; a
\* call that returns has invoked them all and returns the object as the last
\* one left it.
C16_ConfigExtendersInOrder ==
    /\ \A k \in DOMAIN resolution.invoked :
          /\ resolution.invoked[k].extender = k
          /\ resolution.invoked[k].userConfig = resolution.userConfig
          /\ resolution.invoked[k].resolved =
                 ExtendedBy(resolution.invoked[1].resolved, k - 1)
          /\ \A j \in 1..(k - 1) : ~resolution.configExtenders[j].throws
    /\ resolution.invoked # <<>> =>
          LET first == resolution.invoked[1].resolved
          IN /\ MergedOn(resolution.defaultConfig, resolution.userConfig, first,
                         InputKeys \ {"paths", "networks"})
             /\ Field(first, "paths") =
                    resolveProjectPaths(ConfigFile, Field(resolution.userConfig, "paths"))
             /\ Field(first, "networks").kind = "object"
    /\ (resolution.phase = "resolved" /\ resolution.configExtenders # <<>>) =>
          /\ Len(resolution.invoked) = Len(resolution.configExtenders)
          /\ resolution.resolved =
                 ExtendedBy(resolution.invoked[1].resolved,
                            Len(resolution.configExtenders))

C16_Witness ==
    /\ resolution.phase = "resolved"
    /\ Len(resolution.invoked) = 2
    /\ resolution.invoked[2].userConfig = Pick([a |-> Str(<<"2">>)])
    /\ Field(resolution.invoked[2].resolved, "extended") = List(<<"c2">>)
    /\ Field(resolution.resolved, "extended") = List(<<"c2", "c1">>)
    /\ Field(resolution.resolved, "a") = Str(<<"2">>)

(***************************************************************************)
(* A second call of run on the same environment while a task action is in  *)
(* progress (lines 83-100 entered again).  Either the action in progress   *)
(* makes the call and awaits it, or the call is made by code that does not *)
(* wait for the first run, whose action is suspended on something else and *)
(* may settle before the second run does.  stack holds the invocations in  *)
(* progress in the order they started; those of the second run start at    *)
(* overlap.base.                                                           *)
(***************************************************************************)
OverlapInit ==
    /\ Init
    /\ tasks = ChainTasks

\* the first run of the environment
RunFirst ==
    /\ call.name = "none"
    /\ \E name \in DOMAIN ChainTasks : \E taskArguments \in RunArguments(name) :
          Run(name, taskArguments)

\* run(name, taskArguments) while the innermost action is in progress;
\* awaited: that action makes the call and awaits it
RunAgain(name, taskArguments, awaited) ==
    /\ Running
    /\ overlap = NoOverlap
    /\ definitions[Top.def].action = "any"
    /\ UNCHANGED <<registry, env, superCalls, mutations, history, result,
                   lastSuper, lastRestore, construction, resolution>>
    /\ LET resolved ==
               IF Lookup(name) = 0
               THEN [error |-> TrestleError("UNRECOGNIZED_TASK", name),
                     values |-> EmptyMap]
               ELSE _resolveValidTaskArguments(definitions[Lookup(name)],
                                               taskArguments)
           made == [base |-> Len(stack) + 1, outer |-> Top.fid,
                    ambient |-> [global |-> global, runSuper |-> globalRunSuper]]
       IN IF resolved.error # NoError
          THEN /\ overlap' = [base |-> 0, outer |-> made.outer,
                              ambient |-> made.ambient, started |-> FALSE,
                              keys |-> {},
                              status |-> IF awaited THEN "returned"
                                         ELSE "second finished"]
               /\ stack' = IF awaited
                           THEN [stack EXCEPT ![Len(stack)].caught = resolved.error]
                           ELSE stack
               /\ UNCHANGED <<global, globalRunSuper, nextFid, entered, injected>>
          ELSE /\ overlap' = [base |-> made.base, outer |-> made.outer,
                              ambient |-> made.ambient, started |-> TRUE,
                              keys |-> InjectedKeys(env, _BLACKLISTED_PROPERTIES),
                              status |-> IF awaited THEN "nested" ELSE "overlapping"]
               /\ _runTaskDefinition(stack, Lookup(name), resolved.values, nextFid)

\* the invocations whose action can settle: the innermost one, and the
\* innermost one of the first run while the second run overlaps it
CanSettle ==
    {Len(stack)} \cup
    (IF overlap.status = "overlapping" THEN {overlap.base - 1} ELSE {})

\* the action of invocation i settles: its finally block runs, and the
\* outcome goes to the caller awaiting it, if an invocation in progress is
\* that caller
SettleAt(i, error) ==
    LET after == Finally(stack[i])
        isRoot == i = 1 \/ i = overlap.base
        awaitedBelow == i > 1 /\ ~(i = overlap.base /\ overlap.status # "nested")
        rest == [j \in 1..(Len(stack) - 1) |->
                    IF j < i THEN stack[j] ELSE stack[j + 1]]
    IN /\ Running
       /\ i \in CanSettle
       /\ error \in {NoError, ActionError, stack[i].caught}
       /\ global' = after.global
       /\ globalRunSuper' = after.runSuper
       /\ stack' = IF awaitedBelow
                   THEN [rest EXCEPT ![i - 1].caught = error]
                   ELSE rest
       /\ result' = IF i = 1 /\ overlap.status # "first finished"
                    THEN [status |-> IF error = NoError THEN "ok" ELSE "error",
                          error |-> error]
                    ELSE result
       /\ overlap' =
              CASE overlap.status = "nested" /\ i = overlap.base ->
                       [overlap EXCEPT !.status = "returned", !.base = 0]
                [] overlap.status = "overlapping" /\ i = overlap.base ->
                       [overlap EXCEPT !.status = "second finished", !.base = 0]
                [] overlap.status = "overlapping" /\ i = overlap.base - 1 ->
                       [overlap EXCEPT
                           !.status = IF i = 1 THEN "first finished" ELSE @,
                           !.base = @ - 1]
                [] overlap.status = "first finished" /\ i = 1 ->
                       [overlap EXCEPT !.status = "both finished", !.base = 0]
                [] OTHER -> overlap
       /\ UNCHANGED <<registry, env, nextFid, superCalls, mutations, history,
                      entered, injected, lastSuper, lastRestore, construction,
                      resolution>>

OverlapNext ==
    \/ RunFirst
    \/ \E name \in DOMAIN ChainTasks \cup {"deploy"} :
          \E taskArguments \in RunArguments(name) : \E awaited \in BOOLEAN :
             RunAgain(name, taskArguments, awaited)
    \/ \E useDefault \in BOOLEAN : \E given \in SuperArguments :
          CallRunSuper(useDefault, given)
    \/ \E i \in 1..Len(stack) :
          \E error \in {NoError, ActionError,
                        TrestleError("UNRECOGNIZED_TASK", "deploy"),
                        TrestleError("RUNSUPER_NOT_AVAILABLE", "build"),
                        TrestleError("RUNSUPER_NOT_AVAILABLE", "clean")} :
             SettleAt(i, error)

OverlapSpec == OverlapInit /\ [][OverlapNext]_vars

\* the action that called run and awaits it is the innermost one again
InnerRunReturned ==
    /\ overlap.status = "returned"
    /\ Running
    /\ Top.fid = overlap.outer

\* C17: when a second run starts while the first run's action is suspended
\* and the first run finishes before the second, then after both have
\* finished the global runSuper does not hold the value it had before the
\* first run started: it is left holding a runSuper made during the first
\* run.
C17_OverlapCorruptsRunSuper ==
    overlap.status = "both finished" =>
        /\ ~Running
        /\ globalRunSuper # snapshot.runSuper
        /\ globalRunSuper \in 1..(nextFid - 1)

C17_Witness ==
    /\ overlap.status = "both finished"
    /\ snapshot.runSuper = 0
    /\ globalRunSuper = 2
    /\ entered = <<3, 2, 4>>

EnteredBySuper ==
    /\ Len(stack) >= 2
    /\ Top.fid = nextFid - 1
    /\ lastSuper.outcome = "entered"
    /\ lastSuper.def = stack[Len(stack) - 1].def

\* C19: the action runSuper invokes is the parent's, and it receives exactly
\* the mapping the overriding action received when runSuper is called with
\* no argument, and exactly the mapping passed otherwise: nothing is added
\* for the parent's defaults, and a mapping without the parent's mandatory
\* parameters or with values its validators reject is handed over all the
\* same, no validator being called.
C19_SuperArgumentsAsGiven ==
    /\ EnteredBySuper =>
          /\ Top.def = definitions[lastSuper.def].parent
          /\ Top.taskArguments =
                 IF lastSuper.passed = "nothing"
                 THEN stack[Len(stack) - 1].taskArguments
                 ELSE lastSuper.given
    /\ (lastSuper.def # 0 /\ isOverridden(definitions[lastSuper.def])) =>
          /\ lastSuper.outcome = "entered"
          /\ lastSuper.invoked = 1
    /\ Running =>
          validated = _resolveValidTaskArguments(definitions[tasks[call.name]],
                                                 call.taskArguments).calls

C19_Witness ==
    /\ EnteredBySuper
    /\ lastSuper.passed = "mapping"
    /\ Top.def = 1
    /\ ~definitions[1].positionalParamDefinitions[1].isOptional
    /\ Top.taskArguments = [k \in {ExtraKey} |-> Scalar("bad")]
    /\ definitions[2].paramDefinitions[1].defaultValue = DefaultValue
    /\ stack[2].taskArguments = EmptyMap

\* the error the resolution of one failing parameter throws
ErrorOf(paramDefinition) ==
    IF Provided(paramDefinition)
    THEN TrestleError("TRESTLE301", paramDefinition.name)
    ELSE TrestleError("MISSING_TASK_ARGUMENT", paramDefinition.name)
Failing == {i \in DOMAIN Declared : Fails(Declared[i])}
FirstFailing == CHOOSE i \in Failing : \A j \in Failing : i <= j
\* the parameters whose validator the resolution has to call: those with a
\* validator and a value (a variadic one: with an element)
Checked == {i \in DOMAIN Declared :
               /\ Declared[i].type = "checked"
               /\ Provided(Declared[i])
               /\ Declared[i].isVariadic => Raw(Declared[i]).items # <<>>}
CallsFor(i) == {c \in DOMAIN validated : validated[c][1] = Declared[i].name}

\* C20: when the resolution of one or of several parameters fails, run fails
\* with the error of the first failing parameter in the order named
\* parameters (as the mapping yields them), then positional parameters (as
\* declared); the action is not invoked and no global is written; and every
\* parameter has been examined all the same: the validator of every provided
\* parameter that has one was called (for a variadic parameter, on its
\* elements), in that order, also for the parameters after the first failing
\* one.
C20_FirstErrorSurfaced ==
    (Recognized /\ Failing # {}) =>
        /\ RunFailedBeforeAction
        /\ result.error = ErrorOf(Declared[FirstFailing])
        /\ \A i \in Checked : CallsFor(i) # {}
        /\ \A i \in Checked : \A j \in Checked :
              i < j => \A c \in CallsFor(i) : \A d \in CallsFor(j) : c < d

C20_Witness ==
    /\ Recognized
    /\ Len(Declared) = 3
    /\ Failing = {1, 2, 3}
    /\ result.error = TrestleError("MISSING_TASK_ARGUMENT", "n1")
    /\ validated = <<<<"n2", Scalar("bad")>>, <<"p1", Scalar("bad")>>>>

====
